---------------------------- MODULE Spec2Model ----------------------------
(***************************************************************************)
(* Model of the blog front end: js/app.js (post catalog, tag filter, post  *)
(* list), js/search.js (search debounce, theme controller) and             *)
(* js/post-loader.js (front-matter parser, post page, comment widget).     *)
(*                                                                         *)
(* A JavaScript string is a sequence of one-character strings, so that     *)
(* trim, toLowerCase, includes, split and the default sort order are       *)
(* computed character by character.                                        *)
(***************************************************************************)
EXTENDS Integers, Sequences, FiniteSets

VARIABLES
  \* ---- index page: js/app.js
  loadPc,        \* position of the async loadPosts
  response,      \* what fetch('posts.json') resolved to
  allPosts, allTags, activeTag,
  tagButtons,    \* data-tag of the buttons in #tags-container
  postsList,     \* the posts rendered in #posts-list
  loadingEl,     \* #loading: "spinner" | "hidden" | "failed"
  noPostsEl,     \* #no-posts is displayed
  \* ---- index page: js/search.js (search)
  searchValue,   \* searchInput.value
  searchTimeout, \* the timer handle, 0 for null
  timers,        \* the browser's pending timeouts
  now,           \* the virtual clock, ms
  lastInput,     \* history: the latest input event
  lastCall,      \* history: the latest updateSearchResults call
  fired,         \* history: the timer's calls since the latest input event
  sinceEscape,   \* history: "never" | "cleared" | "typed"
  \* ---- theme controller: js/search.js (theme)
  themePc,       \* "boot" until initTheme has run
  dataTheme,     \* the data-theme attribute of the document element
  storedTheme,   \* localStorage.getItem(THEME_KEY)
  osDark,        \* matchMedia('(prefers-color-scheme: dark)').matches
  toggled,       \* history: "no" | "yes" | "os" (an OS change after a toggle)
  osChanges,     \* history: the OS change notifications so far
  \* ---- post page: js/post-loader.js
  postPc, rawContent, metadata, content, giscus

pageVars   == <<loadPc, response, allPosts, allTags, activeTag, tagButtons,
                postsList, loadingEl, noPostsEl>>
searchVars == <<searchValue, searchTimeout, timers, now, lastInput, lastCall,
                fired, sinceEscape>>
themeVars  == <<themePc, dataTheme, storedTheme, osDark, toggled, osChanges>>
postVars   == <<postPc, rawContent, metadata, content, giscus>>
vars       == <<pageVars, searchVars, themeVars, postVars>>

-----------------------------------------------------------------------------
(* JavaScript strings                                                      *)

\* The characters used, in ascending UTF-16 code unit order.
CodeOrder ==
  <<"\n", " ", "\"", "'", ",", "-", ":", "A", "B", "[", "]", "_",
    "a", "b", "g", "o", "p", "r", "s", "t">>

CharCode(c) == CHOOSE i \in 1..Len(CodeOrder) : CodeOrder[i] = c

\* null: no string over CodeOrder equals it.
Null == <<"<null>">>

\* a < b as the default comparator of Array.prototype.sort orders strings.
RECURSIVE StrLess(_, _)
StrLess(a, b) ==
  IF b = <<>> THEN FALSE
  ELSE IF a = <<>> THEN TRUE
  ELSE IF Head(a) = Head(b) THEN StrLess(Tail(a), Tail(b))
  ELSE CharCode(Head(a)) < CharCode(Head(b))

ToLowerChar(c) == CASE c = "A" -> "a" [] c = "B" -> "b" [] OTHER -> c

toLowerCase(s) == [i \in 1..Len(s) |-> ToLowerChar(s[i])]

\* s.includes(sub)
Includes(s, sub) ==
  \E i \in 0..Len(s) :
    i + Len(sub) <= Len(s) /\ SubSeq(s, i + 1, i + Len(sub)) = sub

StartsWith(s, p) == Len(p) <= Len(s) /\ SubSeq(s, 1, Len(p)) = p
EndsWith(s, p) ==
  Len(p) <= Len(s) /\ SubSeq(s, Len(s) - Len(p) + 1, Len(s)) = p

IsSpace(c) == c \in {" ", "\n"}

RECURSIVE TrimStart(_)
TrimStart(s) ==
  IF s # <<>> /\ IsSpace(Head(s)) THEN TrimStart(Tail(s)) ELSE s

RECURSIVE TrimEnd(_)
TrimEnd(s) ==
  IF s # <<>> /\ IsSpace(s[Len(s)])
  THEN TrimEnd(SubSeq(s, 1, Len(s) - 1)) ELSE s

\* s.trim()
Trim(s) == TrimEnd(TrimStart(s))

-----------------------------------------------------------------------------
(* Post catalog and filter engine: js/app.js                               *)

\* JSON values of a post's tags field.
TagsArray(items) == [kind |-> "array", items |-> items]
TagsString(s)    == [kind |-> "string", items |-> <<s>>]
TagsMissing      == [kind |-> "undefined", items |-> <<>>]

Post(file, title, excerpt, tags) ==
  [kind |-> "object", file |-> file, title |-> title, excerpt |-> excerpt,
   tags |-> tags]
NullPost == [kind |-> "null", file |-> <<>>, title |-> <<>>,
             excerpt |-> <<>>, tags |-> TagsMissing]

\* What response.json() can resolve to: an array, or some other JSON value.
JsArray(items) == [kind |-> "array", items |-> items]
JsObject       == [kind |-> "object", items |-> <<>>]

Returned(v) == [threw |-> FALSE, value |-> v]
Thrown(v)   == [threw |-> TRUE, value |-> v]

\* Truthiness of post.tags.
TagsTruthy(tags) ==
  CASE tags.kind = "array"  -> TRUE
    [] tags.kind = "string" -> tags.items[1] # <<>>
    [] OTHER                -> FALSE

\* post.tags.includes(tag): element of an array, substring of a string.
TagsIncludes(tags, tag) ==
  IF tags.kind = "array"
  THEN \E i \in 1..Len(tags.items) : tags.items[i] = tag
  ELSE Includes(tags.items[1], tag)

\* post => post.tags && post.tags.includes(activeTag); "X" is a TypeError.
TagPredicate(post, tag) ==
  IF post.kind = "null" THEN "X"
  ELSE IF TagsTruthy(post.tags) /\ TagsIncludes(post.tags, tag) THEN "T"
  ELSE "F"

QueryPredicateNoLower(post, searchQuery) ==
  IF post.kind = "null" THEN "X"
  ELSE IF Includes(toLowerCase(post.title), searchQuery) THEN "T"
  ELSE IF Includes(toLowerCase(post.excerpt), searchQuery) THEN "T"
  ELSE IF ~TagsTruthy(post.tags) THEN "F"
  ELSE IF post.tags.kind # "array" THEN "X"
  ELSE IF \E i \in 1..Len(post.tags.items) :
            Includes(toLowerCase(post.tags.items[i]), searchQuery)
       THEN "T" ELSE "F"

\* The search predicate of filterPosts, query = searchQuery.toLowerCase().
QueryPredicate(post, searchQuery) ==
  LET query == toLowerCase(searchQuery) IN
  IF post.kind = "null" THEN "X"
  ELSE IF Includes(toLowerCase(post.title), query) THEN "T"
  ELSE IF Includes(toLowerCase(post.excerpt), query) THEN "T"
  ELSE IF ~TagsTruthy(post.tags) THEN "F"
  ELSE IF post.tags.kind # "array" THEN "X"
  ELSE IF \E i \in 1..Len(post.tags.items) :
            Includes(toLowerCase(post.tags.items[i]), query)
       THEN "T" ELSE "F"

\* The elements the callback kept.
RECURSIVE Kept(_, _)
Kept(items, verdicts) ==
  IF items = <<>> THEN <<>>
  ELSE (IF Head(verdicts) = "T" THEN <<Head(items)>> ELSE <<>>)
       \o Kept(Tail(items), Tail(verdicts))

\* arr.filter(callback), verdicts[i] being what the callback does on the
\* i-th element: a TypeError when arr is no array or the callback throws.
JsFilter(arr, verdicts) ==
  IF arr.kind # "array" THEN Thrown(arr)
  ELSE IF \E i \in 1..Len(arr.items) : verdicts[i] = "X" THEN Thrown(arr)
  ELSE Returned(JsArray(Kept(arr.items, verdicts)))

\* filterPosts(searchQuery = '') over the globals allPosts and activeTag.
filterPosts(posts, tag, searchQuery) ==
  LET tagged ==
        IF tag # Null /\ tag # <<>>
        THEN JsFilter(posts, [i \in 1..Len(posts.items) |->
                                TagPredicate(posts.items[i], tag)])
        ELSE Returned(posts)
      kept == tagged.value
  IN IF tagged.threw \/ searchQuery = <<>> THEN tagged
     ELSE JsFilter(kept, [i \in 1..Len(kept.items) |->
                            QueryPredicate(kept.items[i], searchQuery)])

\* tagSet.add(tag) for each tag of the array, in order (a Set keeps the
\* insertion order and ignores an element it already holds).
RECURSIVE AddAll(_, _)
AddAll(tagSet, tags) ==
  IF tags = <<>> THEN tagSet
  ELSE AddAll(IF \E i \in 1..Len(tagSet) : tagSet[i] = Head(tags)
              THEN tagSet ELSE Append(tagSet, Head(tags)),
              Tail(tags))

RECURSIVE CollectTags(_, _)
CollectTags(tagSet, posts) ==
  IF posts = <<>> THEN tagSet
  ELSE CollectTags(IF Head(posts).tags.kind = "array"
                   THEN AddAll(tagSet, Head(posts).tags.items) ELSE tagSet,
                   Tail(posts))

RECURSIVE Insert(_, _)
Insert(sorted, s) ==
  IF sorted = <<>> THEN <<s>>
  ELSE IF StrLess(s, Head(sorted)) THEN <<s>> \o sorted
  ELSE <<Head(sorted)>> \o Insert(Tail(sorted), s)

\* Array.prototype.sort() with the default comparator.
RECURSIVE Sort(_)
Sort(arr) == IF arr = <<>> THEN <<>> ELSE Insert(Sort(Tail(arr)), Head(arr))

extractTagsUnsorted(posts) ==
  IF posts.kind # "array" THEN Thrown(<<>>)
  ELSE IF \E i \in 1..Len(posts.items) : posts.items[i].kind = "null"
       THEN Thrown(<<>>)
  ELSE Returned(CollectTags(<<>>, posts.items))

\* extractTags(): the value left in allTags, or a TypeError (allTags as it was).
extractTags(posts) ==
  IF posts.kind # "array" THEN Thrown(<<>>)
  ELSE IF \E i \in 1..Len(posts.items) : posts.items[i].kind = "null"
       THEN Thrown(<<>>)
  ELSE Returned(Sort(CollectTags(<<>>, posts.items)))


\* escapeHTML(tag) inside data-tag="..." and read back as dataset.tag: the
\* serialised text keeps a double quote as it is, so the attribute value
\* ends at the first one.
RECURSIVE DataTag(_)
DataTag(tag) ==
  IF tag = <<>> \/ Head(tag) = "\"" THEN <<>>
  ELSE <<Head(tag)>> \o DataTag(Tail(tag))

\* renderTags(): the buttons of #tags-container (left as they are when
\* allTags is empty).
renderTags(tags, buttons) ==
  IF tags = <<>> THEN buttons
  ELSE <<<<>>>> \o [i \in 1..Len(tags) |-> DataTag(tags[i])]

\* Whether the map callback of renderPosts throws on this post.
RenderThrows(post) ==
  \/ post.kind = "null"
  \/ post.tags.kind = "string" /\ post.tags.items[1] # <<>>

\* renderPosts(posts): what it leaves in #posts-list and #no-posts.
renderPosts(posts, list, noPosts) ==
  IF posts.kind = "array" /\ posts.items = <<>>
  THEN [threw |-> FALSE, postsList |-> <<>>, noPostsEl |-> TRUE]
  ELSE IF posts.kind # "array"
          \/ \E i \in 1..Len(posts.items) : RenderThrows(posts.items[i])
  THEN [threw |-> TRUE, postsList |-> list, noPostsEl |-> FALSE]
  ELSE [threw |-> FALSE, postsList |-> posts.items, noPostsEl |-> FALSE]

\* The new activeTag of handleTagClick.
selectTag(active, selectedTag) ==
  IF active = selectedTag \/ (selectedTag = <<>> /\ active = Null)
  THEN Null
  ELSE IF selectedTag = <<>> THEN Null ELSE selectedTag

-----------------------------------------------------------------------------
(* The index page                                                          *)

DEBOUNCE_DELAY == 300

\* The clock advances in steps of 50 ms.
Tick == DEBOUNCE_DELAY \div 6

MaxTicks  == 9
MaxInputs == 3

P1 == Post(<<"a">>, <<"A", "b">>, <<"b">>, TagsArray(<<<<"b">>, <<"a">>>>))
P2 == Post(<<"b">>, <<"B">>, <<>>, TagsArray(<<<<"a">>>>))
P3 == Post(<<"g">>, <<"a">>, <<"a">>, TagsMissing)
PQuote == Post(<<"o">>, <<"b">>, <<"b">>, TagsArray(<<<<"a", "\"", "b">>>>))
PText == Post(<<"p">>, <<"a">>, <<"b">>, TagsString(<<"a">>))

\* What fetch('posts.json') and response.json() can produce.
IndexResponses ==
  { [kind |-> "unreachable", body |-> JsObject],
    [kind |-> "notOk",       body |-> JsObject],
    [kind |-> "badJson",     body |-> JsObject],
    [kind |-> "json",        body |-> JsObject],
    [kind |-> "json",        body |-> JsArray(<<NullPost>>)],
    [kind |-> "json",        body |-> JsArray(<<>>)],
    [kind |-> "json",        body |-> JsArray(<<P1, P2>>)],
    [kind |-> "json",        body |-> JsArray(<<P3, P1>>)],
    [kind |-> "json",        body |-> JsArray(<<P1, PText>>)],
    [kind |-> "json",        body |-> JsArray(<<P2, PQuote>>)] }

\* The text an input event can carry.
SearchTexts == { <<>>, <<" ", "B">>, <<"a", " ">> }

NoInput == [at |-> 0, text |-> Null]
NoCall  == [by |-> "none", query |-> Null]

PageInit ==
  /\ loadPc = "init"
  /\ response = [kind |-> "none", body |-> JsObject]
  /\ allPosts = JsArray(<<>>)
  /\ allTags = <<>>
  /\ activeTag = Null
  /\ tagButtons = <<>>
  /\ postsList = <<>>
  /\ loadingEl = "spinner"
  /\ noPostsEl = FALSE
  /\ searchValue = <<>>
  /\ searchTimeout = 0
  /\ timers = {}
  /\ now = 0
  /\ lastInput = NoInput
  /\ lastCall = NoCall
  /\ fired = <<>>
  /\ sinceEscape = "never"

\* DOMContentLoaded: loadPosts runs up to its fetch, initSearch registers
\* the listeners of the search input.
DOMContentLoaded ==
  /\ loadPc = "init"
  /\ loadPc' = "fetching"
  /\ UNCHANGED <<response, allPosts, allTags, activeTag, tagButtons,
                 postsList, loadingEl, noPostsEl>>
  /\ UNCHANGED <<searchVars, themeVars, postVars>>

\* loadPosts: fetch settles. A rejection or a non-OK response goes to the
\* catch block.
FetchSettles ==
  /\ loadPc = "fetching"
  /\ \E r \in IndexResponses :
       /\ response' = r
       /\ IF r.kind \in {"unreachable", "notOk"}
          THEN loadPc' = "failed" /\ loadingEl' = "failed"
          ELSE loadPc' = "parsing" /\ loadingEl' = loadingEl
  /\ UNCHANGED <<allPosts, allTags, activeTag, tagButtons, postsList,
                 noPostsEl>>
  /\ UNCHANGED <<searchVars, themeVars, postVars>>

\* loadPosts: response.json() settles, then the rest of the try block.
JsonSettles ==
  /\ loadPc = "parsing"
  /\ IF response.kind = "badJson"
     THEN /\ loadPc' = "failed" /\ loadingEl' = "failed"
          /\ UNCHANGED <<allPosts, allTags, tagButtons, postsList, noPostsEl>>
     ELSE LET tags == extractTags(response.body)
              rendered == renderPosts(response.body, postsList, noPostsEl)
          IN /\ allPosts' = response.body
             /\ IF tags.threw
                THEN /\ loadPc' = "failed" /\ loadingEl' = "failed"
                     /\ UNCHANGED <<allTags, tagButtons, postsList, noPostsEl>>
                ELSE /\ allTags' = tags.value
                     /\ tagButtons' = renderTags(tags.value, tagButtons)
                     /\ postsList' = rendered.postsList
                     /\ noPostsEl' = rendered.noPostsEl
                     /\ IF rendered.threw
                        THEN loadPc' = "failed" /\ loadingEl' = "failed"
                        ELSE loadPc' = "done" /\ loadingEl' = "hidden"
  /\ UNCHANGED <<response, activeTag>>
  /\ UNCHANGED <<searchVars, themeVars, postVars>>

\* handleTagClick on the i-th button of #tags-container.
HandleTagClick(i) ==
  /\ i \in 1..Len(tagButtons)
  /\ LET tag == selectTag(activeTag, tagButtons[i])
         filtered == filterPosts(allPosts, tag, <<>>)
         rendered == renderPosts(filtered.value, postsList, noPostsEl)
     IN /\ activeTag' = tag
        /\ tagButtons' = renderTags(allTags, tagButtons)
        /\ IF filtered.threw
           THEN UNCHANGED <<postsList, noPostsEl>>
           ELSE postsList' = rendered.postsList
                /\ noPostsEl' = rendered.noPostsEl
  /\ UNCHANGED <<loadPc, response, allPosts, allTags, loadingEl>>
  /\ UNCHANGED <<searchVars, themeVars, postVars>>

\* updateSearchResults(query), called by the timer callback or by Escape.
UpdateSearchResults(query, by) ==
  LET filtered == filterPosts(allPosts, activeTag, query)
      rendered == renderPosts(filtered.value, postsList, noPostsEl)
  IN /\ IF filtered.threw
        THEN UNCHANGED <<postsList, noPostsEl>>
        ELSE postsList' = rendered.postsList
             /\ noPostsEl' = rendered.noPostsEl
     /\ lastCall' = [by |-> by, query |-> query]
     /\ fired' = IF by = "timer"
                 THEN Append(fired, [at |-> now, query |-> query])
                 ELSE fired

\* clearTimeout(searchTimeout) of handleSearch.
ClearKeepsTimer(pending, handle) == pending

ClearTimeout(pending, handle) == {t \in pending : t.id # handle}

\* handleSearch: an input event carrying the input's new text.
HandleSearch(text) ==
  /\ loadPc # "init"
  /\ searchTimeout < MaxInputs
  /\ text # searchValue
  /\ searchValue' = text
  /\ searchTimeout' = searchTimeout + 1
  /\ timers' = ClearTimeout(timers, searchTimeout)
               \cup {[id |-> searchTimeout + 1, due |-> now + DEBOUNCE_DELAY,
                      query |-> Trim(text)]}
  /\ lastInput' = [at |-> now, text |-> text]
  /\ fired' = <<>>
  /\ UNCHANGED lastCall
  /\ sinceEscape' = IF sinceEscape = "never" THEN "never" ELSE "typed"
  /\ UNCHANGED now
  /\ UNCHANGED <<pageVars, themeVars, postVars>>

\* The timeout of handleSearch expires and its callback runs.
TimerFires(t) ==
  /\ t \in timers
  /\ t.due <= now
  /\ timers' = timers \ {t}
  /\ UpdateSearchResults(t.query, "timer")
  /\ UNCHANGED <<searchValue, searchTimeout, now, lastInput, sinceEscape>>
  /\ UNCHANGED <<loadPc, response, allPosts, allTags, activeTag, tagButtons,
                 loadingEl>>
  /\ UNCHANGED <<themeVars, postVars>>

\* keydown with key Escape on the search input.
Escape ==
  /\ loadPc # "init"
  /\ searchValue' = <<>>
  /\ UpdateSearchResults(<<>>, "escape")
  /\ sinceEscape' = "cleared"
  /\ UNCHANGED <<searchTimeout, timers, now, lastInput>>
  /\ UNCHANGED <<loadPc, response, allPosts, allTags, activeTag, tagButtons,
                 loadingEl>>
  /\ UNCHANGED <<themeVars, postVars>>

\* Time passes (now is the time since DOMContentLoaded); a timeout that is due runs before the clock moves on.
Advance ==
  /\ loadPc # "init"
  /\ now + Tick <= MaxTicks * Tick
  /\ \A t \in timers : now + Tick <= t.due
  /\ now' = now + Tick
  /\ UNCHANGED <<searchValue, searchTimeout, timers, lastInput, lastCall,
                 fired, sinceEscape>>
  /\ UNCHANGED <<pageVars, themeVars, postVars>>


\* The variables of the pages a specification leaves out stay as they are.
NoValue == "<null>"
NoGiscus == [state |-> "none", theme |-> NoValue]

ThemeParked ==
  /\ themePc = "off" /\ dataTheme = NoValue /\ storedTheme = NoValue
  /\ osDark = FALSE /\ toggled = "no" /\ osChanges = 0

PostParked ==
  /\ postPc = "off" /\ rawContent = <<>> /\ metadata = <<>>
  /\ content = <<>> /\ giscus = NoGiscus

Init == PageInit /\ ThemeParked /\ PostParked

Next ==
  \/ DOMContentLoaded
  \/ FetchSettles
  \/ JsonSettles
  \/ \E i \in 1..Len(tagButtons) : HandleTagClick(i)
  \/ \E text \in SearchTexts : HandleSearch(text)
  \/ \E t \in timers : TimerFires(t)
  \/ Escape
  \/ Advance

Spec == Init /\ [][Next]_vars


-----------------------------------------------------------------------------
(* Claims about the index page, checked under Spec                         *)

\* C2: a burst of input events, each less than DEBOUNCE_DELAY after the one
\* before, results in exactly one call of updateSearchResults by the timer:
\* it is made DEBOUNCE_DELAY after the last event of the burst, with that
\* event's trimmed text, and no call is made for an earlier event. In every
\* state the timer's calls since the latest input event are at most one, made
\* at that event's time + DEBOUNCE_DELAY with its trimmed text; none is made
\* before that time and one has been made after it.
C2_DebounceLastEventOnly ==
  /\ lastInput = NoInput => fired = <<>> /\ timers = {}
  /\ lastInput # NoInput =>
       /\ Len(fired) <= 1
       /\ \A k \in 1..Len(fired) :
            fired[k] = [at |-> lastInput.at + DEBOUNCE_DELAY,
                        query |-> Trim(lastInput.text)]
       /\ now < lastInput.at + DEBOUNCE_DELAY => fired = <<>>
       /\ now > lastInput.at + DEBOUNCE_DELAY => Len(fired) = 1

\* Three input events at 0, 100 and 150 ms at the latest, one call at 450.
C2_BurstFiredOnce ==
  /\ searchTimeout = 3
  /\ lastInput.at = 3 * Tick
  /\ fired = <<[at |-> 9 * Tick, query |-> Trim(lastInput.text)]>>
  /\ lastInput.text # Trim(lastInput.text)

\* C5: loadPosts is all-or-nothing: either the whole post set is loaded and
\* no failure message is shown, or the failure message is shown and allPosts
\* and allTags are still empty.
C5_LoadAllOrNothing ==
  /\ loadingEl = "failed" => allPosts = JsArray(<<>>) /\ allTags = <<>>
  /\ loadPc = "done" => loadingEl = "hidden" /\ allPosts = response.body

\* C7: a click on the button of tag T sets activeTag to T when activeTag is
\* not T and clears it when activeTag is T; a click on the "all" button
\* clears activeTag. (Button 1 is "all", button i + 1 is allTags[i].)
C7_TagClickToggles ==
  [][\A i \in 1..Len(tagButtons) :
       HandleTagClick(i) =>
         activeTag' = IF i = 1 \/ activeTag = allTags[i - 1]
                      THEN Null ELSE allTags[i - 1]]_vars

\* C9: once the posts are loaded, after every step that leaves no debounce
\* timer pending and changes the rendered list, the active tag or the search
\* input, the rendered list is the filter result for the current activeTag
\* and the current trimmed text of the search input. (Stated for the steps
\* with an input event since the last Escape; C10 is about the others.)
C9_ListMatchesTagAndQuery ==
  [][(/\ loadPc = "done"
      /\ timers' = {}
      /\ sinceEscape' # "cleared"
      /\ <<postsList, activeTag, searchValue>>'
           # <<postsList, activeTag, searchValue>>)
     => postsList' =
          filterPosts(allPosts', activeTag', Trim(searchValue')).value.items]_vars

\* C10: Escape empties the search input and calls the filter with an empty
\* query, and the search stays cleared: until the next input event no call
\* with a non-empty query is made.
C10_EscapeStaysCleared ==
  sinceEscape = "cleared" => searchValue = <<>> /\ lastCall.query = <<>>


-----------------------------------------------------------------------------
(* extractTags and filterPosts as functions of the globals they read       *)

MaxPosts == 2

CatalogPosts ==
  { Post(<<"a">>, <<"A", "b">>, <<>>, TagsArray(<<<<"b">>, <<"a">>>>)),
    Post(<<"b">>, <<"b">>, <<"a", "B">>, TagsArray(<<<<"B">>>>)),
    Post(<<"g">>, <<"a">>, <<"b">>, TagsMissing),
    Post(<<"o">>, <<"B">>, <<>>, TagsArray(<<>>)),
    Post(<<"p">>, <<>>, <<"a">>, TagsArray(<<<<"a", "b">>, <<"b">>>>)),
    Post(<<"r">>, <<"b">>, <<"A">>, TagsArray(<<<<"a">>, <<"a">>>>)),
    Post(<<"s">>, <<"a">>, <<>>, TagsString(<<"b">>)),
    Post(<<"t">>, <<"b", "b">>, <<"a">>, TagsString(<<>>)) }

CatalogTags == { <<"a">>, <<"b">>, <<"B">>, <<"a", "b">> }

CatalogQueries == { <<>>, <<"a">>, <<"B">>, <<"A", "b">>, <<"b", "a">> }

SeqsUpTo(S, n) == UNION { [1..k -> S] : k \in 0..n }

CatalogInit ==
  /\ loadPc = "called"
  /\ response = [kind |-> "none", body |-> JsObject]
  /\ allPosts \in { JsArray(items) : items \in SeqsUpTo(CatalogPosts, MaxPosts) }
  /\ allTags = <<>>
  /\ activeTag \in {Null} \cup CatalogTags
  /\ tagButtons = <<>>
  /\ postsList = <<>>
  /\ loadingEl = "spinner"
  /\ noPostsEl = FALSE
  /\ searchValue = <<>>
  /\ searchTimeout = 0
  /\ timers = {}
  /\ now = 0
  /\ lastInput = NoInput
  /\ lastCall = NoCall
  /\ fired = <<>>
  /\ sinceEscape = "never"
  /\ ThemeParked
  /\ PostParked

\* A call of extractTags().
ExtractTags ==
  /\ loadPc = "called"
  /\ LET tags == extractTags(allPosts)
     IN IF tags.threw THEN UNCHANGED <<allTags, loadPc>>
        ELSE allTags' = tags.value /\ loadPc' = "extracted"
  /\ UNCHANGED <<response, allPosts, activeTag, tagButtons, postsList,
                 loadingEl, noPostsEl>>
  /\ UNCHANGED <<searchVars, themeVars, postVars>>

\* A call of filterPosts(query); postsList holds what it returned.
FilterPosts(query) ==
  /\ LET filtered == filterPosts(allPosts, activeTag, query)
     IN /\ ~filtered.threw
        /\ postsList' = filtered.value.items
        /\ lastCall' = [by |-> "filterPosts", query |-> query]
  /\ UNCHANGED <<loadPc, response, allPosts, allTags, activeTag, tagButtons,
                 loadingEl, noPostsEl>>
  /\ UNCHANGED <<searchValue, searchTimeout, timers, now, lastInput, fired,
                 sinceEscape>>
  /\ UNCHANGED <<themeVars, postVars>>

CatalogNext ==
  \/ ExtractTags
  \/ \E query \in CatalogQueries : FilterPosts(query)

SpecCatalog == CatalogInit /\ [][CatalogNext]_vars

\* Every post has the Post shape: tags is an array of strings or is missing.
PostShaped(posts) ==
  \A i \in 1..Len(posts) : posts[i].tags.kind \in {"array", "undefined"}

\* The post passes the tag filter and the search filter of the claim.
Matches(post, tag, query) ==
  /\ tag # Null =>
       /\ post.tags.kind = "array"
       /\ tag \in {post.tags.items[i] : i \in 1..Len(post.tags.items)}
  /\ query # <<>> =>
       LET q == toLowerCase(query)
           tags == IF post.tags.kind = "array"
                   THEN {post.tags.items[i] : i \in 1..Len(post.tags.items)}
                   ELSE {}
       IN \/ Includes(toLowerCase(post.title), q)
          \/ Includes(toLowerCase(post.excerpt), q)
          \/ \E t \in tags : Includes(toLowerCase(t), q)

\* The subsequence of posts, in their order, of the posts that match.
MatchingSubsequence(posts, tag, query) ==
  LET idx == {i \in 1..Len(posts) : Matches(posts[i], tag, query)}
      nth(k) == CHOOSE i \in idx : Cardinality({j \in idx : j < i}) = k - 1
  IN [k \in 1..Cardinality(idx) |-> posts[nth(k)]]

\* C1: for every array of posts, every activeTag and every query, filterPosts
\* returns the subsequence of allPosts, in order, of the posts that contain
\* activeTag among their tags (when it is set) and contain the lowercased
\* query in their lowercased title, excerpt or some tag (when it is not
\* empty); with no tag and no query it returns all posts.
C1_FilterIsMatchingSubsequence ==
  PostShaped(allPosts.items) =>
    /\ \A query \in CatalogQueries :
         filterPosts(allPosts, activeTag, query) =
           Returned(JsArray(MatchingSubsequence(allPosts.items, activeTag,
                                                query)))
    /\ filterPosts(allPosts, Null, <<>>) = Returned(allPosts)
    /\ lastCall.by = "filterPosts" =>
         postsList = MatchingSubsequence(allPosts.items, activeTag,
                                         lastCall.query)

\* Both filters are active, the query matches by case folding only, and the
\* result is a proper, non-empty part of the posts.
C1_BothFiltersApplied ==
  /\ PostShaped(allPosts.items)
  /\ activeTag # Null
  /\ lastCall = [by |-> "filterPosts", query |-> <<"A", "b">>]
  /\ postsList # <<>>
  /\ Len(postsList) < Len(allPosts.items)
  /\ \E i \in 1..Len(allPosts.items) :
       /\ Matches(allPosts.items[i], activeTag, <<>>)
       /\ ~Matches(allPosts.items[i], activeTag, lastCall.query)

\* C6: extractTags leaves allTags strictly ascending and free of duplicates,
\* and its elements are exactly the tags in the tags array of some post.
C6_TagsSortedDistinctExact ==
  loadPc = "extracted" =>
    /\ \A i \in 1..Len(allTags) - 1 : StrLess(allTags[i], allTags[i + 1])
    /\ \A i, j \in 1..Len(allTags) : i # j => allTags[i] # allTags[j]
    /\ {allTags[i] : i \in 1..Len(allTags)} =
         UNION { {p.tags.items[i] : i \in 1..Len(p.tags.items)} :
                 p \in {q \in {allPosts.items[k] : k \in 1..Len(allPosts.items)} :
                          q.tags.kind = "array"} }

\* Tags met out of order, beside a post without a tags array.
C6_TagsReordered ==
  /\ loadPc = "extracted"
  /\ Len(allTags) >= 2
  /\ allTags # CollectTags(<<>>, allPosts.items)
  /\ \E i \in 1..Len(allPosts.items) : allPosts.items[i].tags.kind # "array"


-----------------------------------------------------------------------------
(* Front-matter parser: js/post-loader.js                                  *)

\* s.indexOf(c) + 1, 0 when c is not in s.
IndexOf(s, c) ==
  IF \E i \in 1..Len(s) : s[i] = c
  THEN CHOOSE i \in 1..Len(s) : s[i] = c /\ \A j \in 1..(i - 1) : s[j] # c
  ELSE 0

\* s.split(c)
RECURSIVE Split(_, _)
Split(s, c) ==
  LET i == IndexOf(s, c)
  IN IF i = 0 THEN <<s>>
     ELSE <<SubSeq(s, 1, i - 1)>> \o Split(SubSeq(s, i + 1, Len(s)), c)

\* s.slice(1, -1)
Slice1(s) == SubSeq(s, 2, Len(s) - 1)

IsQuote(c) == c \in {"'", "\""}

\* tag.replace(/^['"]|['"]$/g, '')
StripQuotes(s) ==
  LET a == IF s # <<>> /\ IsQuote(Head(s)) THEN Tail(s) ELSE s
  IN IF a # <<>> /\ IsQuote(a[Len(a)]) THEN SubSeq(a, 1, Len(a) - 1) ELSE a

\* The elements of a JSON array between its brackets, for an array of
\* strings: state is "start", "value" (an element must follow) or "after"
\* (an element has ended). No character used here needs an escape.
RECURSIVE JsonElements(_, _, _)
JsonElements(s, acc, state) ==
  IF s = <<>>
  THEN [ok |-> state # "value", items |-> acc]
  ELSE IF Head(s) = " " THEN JsonElements(Tail(s), acc, state)
  ELSE IF state = "after"
  THEN IF Head(s) = "," THEN JsonElements(Tail(s), acc, "value")
       ELSE [ok |-> FALSE, items |-> acc]
  ELSE IF Head(s) = "\"" /\ IndexOf(Tail(s), "\"") > 0
  THEN LET close == IndexOf(Tail(s), "\"")
       IN JsonElements(SubSeq(Tail(s), close + 1, Len(s) - 1),
                       Append(acc, SubSeq(Tail(s), 1, close - 1)), "after")
  ELSE [ok |-> FALSE, items |-> acc]

\* JSON.parse(value) for a value wrapped in [ ]: ok is FALSE when it throws.
JsonParseArray(value) == JsonElements(Slice1(value), <<>>, "start")

\* The catch branch: value.slice(1, -1).split(',').map(trim and strip).
SplitTags(value) ==
  LET parts == Split(Slice1(value), ",")
  IN [i \in 1..Len(parts) |-> StripQuotes(Trim(parts[i]))]

\* The value stored for a front-matter line with key and raw value.
NormalizeValue(key, raw) ==
  LET value == IF \/ StartsWith(raw, <<"\"">>) /\ EndsWith(raw, <<"\"">>)
                  \/ StartsWith(raw, <<"'">>) /\ EndsWith(raw, <<"'">>)
               THEN Slice1(raw) ELSE raw
  IN IF key = <<"t", "a", "g", "s">>
        /\ StartsWith(value, <<"[">>) /\ EndsWith(value, <<"]">>)
     THEN IF JsonParseArray(value).ok
          THEN TagsArray(JsonParseArray(value).items)
          ELSE TagsArray(SplitTags(value))
     ELSE TagsString(value)

ProtoKey == <<"_", "_", "p", "r", "o", "t", "o", "_", "_">>

\* metadata[key] = value on a plain object: the __proto__ setter of
\* Object.prototype ignores a value that is no object (a string), and takes
\* an array as the prototype; neither makes an own property.
SetProperty(obj, key, value) ==
  IF key = ProtoKey THEN obj
  ELSE [k \in DOMAIN obj \cup {key} |-> IF k = key THEN value ELSE obj[k]]

\* The body of lines.forEach in parseFrontMatter.
ParseLine(obj, line) ==
  LET colonIndex == IndexOf(line, ":") - 1
      key == Trim(SubSeq(line, 1, colonIndex))
      raw == Trim(SubSeq(line, colonIndex + 2, Len(line)))
  IN IF colonIndex > 0
     THEN SetProperty(obj, key, NormalizeValue(key, raw))
     ELSE obj

RECURSIVE ParseLines(_, _)
ParseLines(obj, lines) ==
  IF lines = <<>> THEN obj
  ELSE ParseLines(ParseLine(obj, Head(lines)), Tail(lines))

EmptyObject == [k \in {} |-> TagsString(<<>>)]

Opening == <<"-", "-", "-", "\n">>
Closing == <<"\n", "-", "-", "-", "\n">>

\* Where the lazy group of /^---\n([\s\S]*?)\n---\n([\s\S]*)$/ ends: the
\* first "\n---\n" that starts after the opening "---\n"; 0 for no match.
MatchEnd(text) ==
  LET ends == {i \in (Len(Opening) + 1)..(Len(text) - Len(Closing) + 1) :
                 SubSeq(text, i, i + Len(Closing) - 1) = Closing}
  IN IF StartsWith(text, Opening) /\ ends # {}
     THEN CHOOSE i \in ends : \A j \in ends : i <= j
     ELSE 0

\* parseFrontMatter(content): { metadata, content }.
parseFrontMatter(text) ==
  LET end == MatchEnd(text)
  IN IF end = 0
     THEN [metadata |-> EmptyObject, content |-> text]
     ELSE [metadata |->
             ParseLines(EmptyObject,
                        Split(SubSeq(text, Len(Opening) + 1, end - 1), "\n")),
           content |-> SubSeq(text, end + Len(Closing), Len(text))]

-----------------------------------------------------------------------------
(* parseFrontMatter on documents of up to MaxLines lines                   *)

MaxLines == 5

LineDashes      == <<"-", "-", "-">>  \* ---
LineQuoted      == <<"t", ":", " ", "'", "a", "'">>  \* t: 'a'
LineRepeat      == <<"t", ":", "b">>  \* t:b
LineTagsLoose   == <<"t", "a", "g", "s", ":", " ", "[", "a", ",", " ", "\"", "b", "\"", "]">>  \* tags: [a, "b"]
LineTagsStrict  == <<"t", "a", "g", "s", ":", " ", "[", "\"", "a", ",", "b", "\"", "]">>  \* tags: ["a,b"]
LineNoKey       == <<":", "a">>  \* :a
LineEmpty       == <<>>  \* (empty)
LineProto       == <<"_", "_", "p", "r", "o", "t", "o", "_", "_", ":", "a">>  \* __proto__:a

FrontLines ==
  { LineDashes, LineQuoted, LineRepeat, LineTagsLoose, LineTagsStrict,
    LineNoKey, LineEmpty, LineProto }

\* lines.join("\n")
RECURSIVE Join(_)
Join(lines) ==
  IF lines = <<>> THEN <<>>
  ELSE IF Len(lines) = 1 THEN lines[1]
  ELSE lines[1] \o <<"\n">> \o Join(Tail(lines))

Documents == { Join(lines) : lines \in SeqsUpTo(FrontLines, MaxLines) }

NoMetadata == <<>>

\* The index page as it is before DOMContentLoaded.
PageParked ==
  /\ PageInit
  /\ loadPc = "init"

FrontMatterInit ==
  /\ postPc = "called"
  /\ rawContent \in Documents
  /\ metadata = NoMetadata
  /\ content = <<>>
  /\ giscus = NoGiscus
  /\ PageParked
  /\ ThemeParked

\* A call of parseFrontMatter(rawContent).
ParseFrontMatter ==
  /\ postPc = "called"
  /\ postPc' = "parsed"
  /\ metadata' = parseFrontMatter(rawContent).metadata
  /\ content' = parseFrontMatter(rawContent).content
  /\ UNCHANGED <<rawContent, giscus>>
  /\ UNCHANGED <<pageVars, searchVars, themeVars>>

SpecFrontMatter == FrontMatterInit /\ [][ParseFrontMatter]_vars


\* The lines of the document, the closing "---" lines (a line after the
\* second that is followed by a line break) and the lines between the
\* opening line and the first closing line.
DocLines     == Split(rawContent, "\n")
ClosingLines == {j \in 3..(Len(DocLines) - 1) : DocLines[j] = LineDashes}
HasFrontMatter == DocLines[1] = LineDashes /\ ClosingLines # {}
FirstClosing == CHOOSE j \in ClosingLines : \A k \in ClosingLines : j <= k

\* The key of a line with a ':' at a position > 0.
HasKey(line) == IndexOf(line, ":") > 1
KeyOf(line)  == Trim(SubSeq(line, 1, IndexOf(line, ":") - 1))
RawOf(line)  == Trim(SubSeq(line, IndexOf(line, ":") + 1, Len(line)))

\* The last line of the block that carries the key.
LastLine(key) ==
  LET carrying == {i \in 2..(FirstClosing - 1) :
                     HasKey(DocLines[i]) /\ KeyOf(DocLines[i]) = key}
  IN DocLines[CHOOSE i \in carrying : \A k \in carrying : k <= i]

\* C8: parseFrontMatter returns for every input: without the structure
\* (first line ---, a block of lines, a line ---, the body) the metadata is
\* empty and the body is the whole input; with it the body is what follows
\* the closing --- line and metadata holds, for each key of a line with a
\* ':' at a position > 0, the normalized value of the last line carrying the
\* key; a bracketed tags value that is no strict array is split on commas,
\* trimmed and stripped of quotes.
C8_FrontMatterParsed ==
  postPc = "parsed" =>
    IF ~HasFrontMatter
    THEN metadata = EmptyObject /\ content = rawContent
    ELSE LET block == SubSeq(DocLines, 2, FirstClosing - 1)
             keys == {KeyOf(block[i]) :
                        i \in {k \in 1..Len(block) : HasKey(block[k])}}
         IN /\ content = Join(SubSeq(DocLines, FirstClosing + 1, Len(DocLines)))
            /\ DOMAIN metadata = keys
            /\ \A key \in keys :
                 /\ metadata[key] = NormalizeValue(key, RawOf(LastLine(key)))
                 /\ LastLine(key) = LineTagsLoose =>
                      metadata[key] = TagsArray(<<<<"a">>, <<"b">>>>)
                 /\ LastLine(key) = LineTagsStrict =>
                      metadata[key] = TagsArray(<<<<"a", ",", "b">>>>)
                 /\ LastLine(key) = LineQuoted =>
                      metadata[key] = TagsString(<<"a">>)


-----------------------------------------------------------------------------
(* Theme controller (js/search.js) on the post page (js/post-loader.js)    *)

DARK_THEME  == "dark"
LIGHT_THEME == "light"

MaxOsChanges == 3

\* prefersDark ? DARK_THEME : LIGHT_THEME
OsTheme(prefersDark) == IF prefersDark THEN DARK_THEME ELSE LIGHT_THEME

initialThemeOsOnly(savedTheme, prefersDark) == OsTheme(prefersDark)

\* The theme initTheme sets: the saved one, else the system's.
initialTheme(savedTheme, prefersDark) ==
  IF savedTheme # NoValue THEN savedTheme ELSE OsTheme(prefersDark)

FollowsOsAlways(savedTheme) == TRUE

\* !localStorage.getItem(THEME_KEY) in the change listener.
FollowsOs(savedTheme) == savedTheme = NoValue

\* updateGiscusTheme(theme): a message to the widget's frame, when there is
\* one.
updateGiscusTheme(widget, theme) ==
  IF widget.state = "frame"
  THEN [widget EXCEPT !.theme = IF theme = "dark" THEN "dark" ELSE "light"]
  ELSE widget

\* setTheme(theme)
SetTheme(theme) ==
  /\ dataTheme' = theme
  /\ giscus' = updateGiscusTheme(giscus, theme)

\* getCurrentTheme()
getCurrentTheme(theme) == IF theme = "dark" THEN "dark" ELSE "light"

PostDoc    == Join(<<LineDashes, LineQuoted, LineTagsLoose, LineDashes, LineNoKey>>)
PlainDoc   == Join(<<LineQuoted, LineEmpty>>)
PostDocuments == { PostDoc, PlainDoc }

PostInit ==
  /\ themePc = "boot"
  /\ dataTheme = NoValue
  /\ storedTheme \in {NoValue, DARK_THEME, LIGHT_THEME}
  /\ osDark \in BOOLEAN
  /\ toggled = "no"
  /\ osChanges = 0
  /\ postPc = "init"
  /\ rawContent = <<>>
  /\ metadata = NoMetadata
  /\ content = <<>>
  /\ giscus = NoGiscus
  /\ PageParked

\* initTheme(), run when the script is evaluated.
InitTheme ==
  /\ themePc = "boot"
  /\ themePc' = "ready"
  /\ SetTheme(initialTheme(storedTheme, osDark))
  /\ UNCHANGED <<storedTheme, osDark, toggled, osChanges>>
  /\ UNCHANGED <<postPc, rawContent, metadata, content>>
  /\ UNCHANGED <<pageVars, searchVars>>

\* The system's color scheme changes; the change listener of initTheme runs
\* once it is registered.
OsChange ==
  /\ osChanges < MaxOsChanges
  /\ osChanges' = osChanges + 1
  /\ osDark' = ~osDark
  /\ IF themePc = "ready" /\ FollowsOs(storedTheme)
     THEN SetTheme(OsTheme(osDark'))
     ELSE UNCHANGED <<dataTheme, giscus>>
  /\ toggled' = IF toggled = "no" THEN "no" ELSE "os"
  /\ UNCHANGED <<themePc, storedTheme>>
  /\ UNCHANGED <<postPc, rawContent, metadata, content>>
  /\ UNCHANGED <<pageVars, searchVars>>

\* DOMContentLoaded: initThemeToggle registers the click listener; loadPost
\* runs up to its fetch, or ends at once without a file parameter.
PostDOMContentLoaded ==
  /\ themePc = "ready"
  /\ postPc = "init"
  /\ postPc' \in {"notFound", "fetching"}
  /\ UNCHANGED <<rawContent, metadata, content, giscus>>
  /\ UNCHANGED <<pageVars, searchVars, themeVars>>

\* toggleTheme(): a click on #theme-toggle.
ToggleTheme ==
  /\ postPc \notin {"off", "init"}
  /\ LET newTheme == IF dataTheme = DARK_THEME THEN LIGHT_THEME ELSE DARK_THEME
     IN SetTheme(newTheme) /\ storedTheme' = newTheme
  /\ toggled' = "yes"
  /\ UNCHANGED <<themePc, osDark, osChanges>>
  /\ UNCHANGED <<postPc, rawContent, metadata, content>>
  /\ UNCHANGED <<pageVars, searchVars>>

\* loadPost: fetch settles; a rejection or a non-OK response is caught.
PostFetchSettles ==
  /\ postPc = "fetching"
  /\ postPc' \in {"reading", "failed"}
  /\ UNCHANGED <<rawContent, metadata, content, giscus>>
  /\ UNCHANGED <<pageVars, searchVars, themeVars>>

\* loadPost: response.text() settles; the document is parsed and rendered
\* and loadGiscus appends the widget's script unless its frame is there.
PostTextSettles ==
  /\ postPc = "reading"
  /\ \E raw \in PostDocuments :
       /\ rawContent' = raw
       /\ metadata' = parseFrontMatter(raw).metadata
       /\ content' = parseFrontMatter(raw).content
  /\ giscus' = IF giscus.state = "frame" THEN giscus
               ELSE [state |-> "script", theme |-> getCurrentTheme(dataTheme)]
  /\ postPc' = "done"
  /\ UNCHANGED <<pageVars, searchVars, themeVars>>

\* The widget's script has built its frame.
GiscusFrameLoads ==
  /\ giscus.state = "script"
  /\ giscus' = [giscus EXCEPT !.state = "frame"]
  /\ UNCHANGED <<postPc, rawContent, metadata, content>>
  /\ UNCHANGED <<pageVars, searchVars, themeVars>>

PostNext ==
  \/ InitTheme
  \/ OsChange
  \/ PostDOMContentLoaded
  \/ ToggleTheme
  \/ PostFetchSettles
  \/ PostTextSettles
  \/ GiscusFrameLoads

SpecPost == PostInit /\ [][PostNext]_vars

\* C3: once a toggle has persisted a preference, no OS change notification
\* changes the theme: from the first toggle on the theme equals the persisted
\* value and an OS change leaves it as it is.
C3_OsIgnoredAfterToggle ==
  /\ [](toggled # "no" => dataTheme = storedTheme)
  /\ [][(toggled # "no" /\ osDark' # osDark) => dataTheme' = dataTheme]_vars

\* The OS changed to dark after a toggle to light.
C3_OsChangedAfterToggle ==
  toggled = "os" /\ storedTheme = LIGHT_THEME /\ dataTheme = LIGHT_THEME /\ osDark

\* C4: at startup the theme is the persisted preference if there is one, else
\* dark or light as the OS reports; and while no preference is persisted the
\* theme is the one the OS reported last.
C4_StartupAndOsMirror ==
  themePc = "ready" =>
    /\ (storedTheme # NoValue /\ toggled = "no") => dataTheme = storedTheme
    /\ storedTheme = NoValue => dataTheme = OsTheme(osDark)

\* No preference persisted, and the OS has changed to dark since startup.
C4_OsMirrored ==
  /\ themePc = "ready" /\ storedTheme = NoValue
  /\ osChanges = 1 /\ osDark /\ postPc = "done"

=============================================================================
